---- MODULE Spec2Model ----
(***************************************************************************)
(* SailCode-Bridge (src/src/index.js): the path-authorization and bounded  *)
(* file-access layer of the local HTTP service, and its browser UI         *)
(* (src/unnamed/part_000).                                                  *)
(*                                                                         *)
(* A JavaScript string is a sequence of one-character strings, so that     *)
(* trim, split, join, resolve, relative and extname are computed on the    *)
(* characters as the code computes them:  "/p/.env" is                     *)
(* <<"/", "p", "/", ".", "e", "n", "v">>.  The empty string is << >>.      *)
(***************************************************************************)
EXTENDS Integers, Sequences, FiniteSets, TLC

----------------------------------------------------------------------------
(* Strings                                                                 *)

\* The element of a set of one element.  Only({ F(v) : v \in { e } }) is
\* F(e) with e computed once, as a `const v = e` of the code computes it,
\* however often F uses v.
Only(S) == CHOOSE x \in S : TRUE

\* The characters String.prototype.trim removes (the model's alphabet holds
\* the space only).
WhiteSpace == {" "}

RECURSIVE TrimStart(_)
TrimStart(s) ==
    IF s # << >> /\ Head(s) \in WhiteSpace THEN TrimStart(Tail(s)) ELSE s

RECURSIVE TrimEnd(_)
TrimEnd(s) ==
    IF s # << >> /\ s[Len(s)] \in WhiteSpace
    THEN TrimEnd(SubSeq(s, 1, Len(s) - 1))
    ELSE s

\* String.prototype.trim
Trim(s) == TrimEnd(TrimStart(s))

\* String.prototype.split(sep) for a one-character separator:
\* "".split(sep) is [""], "a/".split("/") is ["a", ""].
RECURSIVE SplitFrom(_, _, _)
SplitFrom(s, sep, cur) ==
    IF s = << >> THEN << cur >>
    ELSE IF Head(s) = sep THEN << cur >> \o SplitFrom(Tail(s), sep, << >>)
    ELSE SplitFrom(Tail(s), sep, Append(cur, Head(s)))

Split(s, sep) == Only({ SplitFrom(v, sep, << >>) : v \in { s } })

\* Array.prototype.join(sep)
RECURSIVE Join(_, _)
Join(parts, sep) ==
    IF parts = << >> THEN << >>
    ELSE IF Len(parts) = 1 THEN parts[1]
    ELSE parts[1] \o << sep >> \o Join(Tail(parts), sep)

\* String.prototype.startsWith
StartsWith(s, pre) == Len(s) >= Len(pre) /\ SubSeq(s, 1, Len(pre)) = pre

\* String.prototype.toLowerCase, on the model's alphabet.
LowerChar(c) ==
    CASE c = "E" -> "e"
      [] c = "K" -> "k"
      [] c = "M" -> "m"
      [] c = "P" -> "p"
      [] c = "Y" -> "y"
      [] OTHER -> c

ToLowerCase(s) == [i \in 1..Len(s) |-> LowerChar(s[i])]

----------------------------------------------------------------------------
(* node:path, POSIX flavour                                                *)

\* process.cwd(): the directory the service was started in.
Cwd == << "/", "w" >>

\* path.isAbsolute
PathIsAbsolute(p) == p # << >> /\ p[1] = "/"

\* normalizeString(path, allowAboveRoot = false) on the segments of an
\* absolute path: empty and "." segments are dropped, ".." removes the
\* segment before it and is dropped at the root.
RECURSIVE NormalizeSegs(_, _)
NormalizeSegs(segs, acc) ==
    IF segs = << >> THEN acc
    ELSE LET seg == Head(segs) IN
         IF seg = << >> \/ seg = << "." >> THEN NormalizeSegs(Tail(segs), acc)
         ELSE IF seg = << ".", "." >>
              THEN NormalizeSegs(Tail(segs),
                       IF acc = << >> THEN acc ELSE SubSeq(acc, 1, Len(acc) - 1))
              ELSE NormalizeSegs(Tail(segs), Append(acc, seg))

\* The segments of the absolute path a string resolves to.
ResolvedSegs(p) ==
    LET abs == IF PathIsAbsolute(p) THEN p
               ELSE IF p = << >> THEN Cwd
               ELSE Cwd \o << "/" >> \o p
    IN  Only({ NormalizeSegs(parts, << >>) : parts \in { Split(abs, "/") } })

\* path.resolve(p): absolute, no "." or ".." segment, no trailing slash;
\* the empty string resolves to the working directory.
PathResolve(p) == << "/" >> \o Join(ResolvedSegs(p), "/")

\* path.join(dir, name) = normalize(dir + "/" + name), for an absolute dir.
PathJoin(dir, name) ==
    Only({ << "/" >> \o Join(NormalizeSegs(parts, << >>), "/") :
           parts \in { Split(dir \o << "/" >> \o name, "/") } })

RECURSIVE CommonPrefixLen(_, _)
CommonPrefixLen(a, b) ==
    IF a # << >> /\ b # << >> /\ Head(a) = Head(b)
    THEN 1 + CommonPrefixLen(Tail(a), Tail(b))
    ELSE 0

\* path.relative(from, to): both resolved, '' when equal, otherwise one ".."
\* per segment of `from` below the common ancestor, then the rest of `to`.
PathRelative(from, to) ==
    LET f == ResolvedSegs(from)
        t == ResolvedSegs(to)
        k == CommonPrefixLen(f, t)
    IN  Join([i \in 1..(Len(f) - k) |-> << ".", "." >>]
                 \o SubSeq(t, k + 1, Len(t)), "/")

\* The index of the last "." of s, 0 when it has none.
RECURSIVE LastDot(_)
LastDot(s) ==
    IF s = << >> THEN 0
    ELSE IF s[Len(s)] = "." THEN Len(s)
    ELSE LastDot(SubSeq(s, 1, Len(s) - 1))

\* path.basename of a path without a trailing slash.
PathBasename(p) == LET segs == Split(p, "/") IN segs[Len(segs)]

\* path.extname: from the last "." of the base name to its end; '' when the
\* base name has no ".", when its only "." is its first character, and for
\* the base name "..".
PathExtname(p) ==
    LET base == PathBasename(p)
        d    == LastDot(base)
    IN  IF d = 0 \/ d = 1 \/ base = << ".", "." >> THEN << >>
        ELSE SubSeq(base, d, Len(base))

----------------------------------------------------------------------------
(* JavaScript numbers: an integer or NaN                                   *)

Num(n) == [nan |-> FALSE, v |-> n]
NaN    == [nan |-> TRUE, v |-> 0]

\* a >= b and a > b: false when either side is NaN.
JsGe(a, b) == ~a.nan /\ ~b.nan /\ a.v >= b.v
JsGt(a, b) == ~a.nan /\ ~b.nan /\ a.v > b.v

\* Math.min: NaN when either argument is NaN.
MathMin(a, b) == IF a.nan \/ b.nan THEN NaN ELSE IF a.v <= b.v THEN a ELSE b

Digits == << "0", "1", "2", "3", "4", "5", "6", "7", "8", "9" >>
IsDigit(c) == \E i \in 1..10 : Digits[i] = c
DigitVal(c) == (CHOOSE i \in 1..10 : Digits[i] = c) - 1

RECURSIVE DecimalVal(_, _)
DecimalVal(s, acc) ==
    IF s = << >> THEN acc ELSE DecimalVal(Tail(s), 10 * acc + DigitVal(Head(s)))

AllDigits(s) == s # << >> /\ \A i \in 1..Len(s) : IsDigit(s[i])

\* Number(string): white space is trimmed, '' is 0, an optionally signed
\* run of decimal digits is its value, anything else is NaN.
StringToNumber(s) ==
    LET t == Trim(s) IN
    IF t = << >> THEN Num(0)
    ELSE IF AllDigits(t) THEN Num(DecimalVal(t, 0))
    ELSE IF Head(t) = "-" /\ AllDigits(Tail(t)) THEN Num(0 - DecimalVal(Tail(t), 0))
    ELSE IF Head(t) = "+" /\ AllDigits(Tail(t)) THEN Num(DecimalVal(Tail(t), 0))
    ELSE NaN

----------------------------------------------------------------------------
(* The file system the service runs on                                     *)
(*                                                                         *)
(* A node is a directory (its entries in the order readdir returns them)   *)
(* or a file.  An entry names a node; a symbolic link is an entry with     *)
(* link = TRUE, and an entry to NoNode is one whose stat fails (a dangling *)
(* link).  The tree:                                                       *)
(*   /w            the working directory, with file t                      *)
(*   /p            a project: src/, .env, f, k.PEM, ..c/, .git/, big,      *)
(*                 x (dangling), lnk -> /q                                 *)
(*   /p/src        b, a/ (with z), up -> /p                                *)
(*   "/p "         a sibling of /p whose name ends in a space, with file s *)
(*   /q            o, M, d/ (a directory that cannot be listed)            *)
(***************************************************************************)

NoNode == 0

Entry(name, to)   == [name |-> name, to |-> to, link |-> FALSE]
SymLink(name, to) == [name |-> name, to |-> to, link |-> TRUE]

DirNode(entries) ==
    [dir |-> TRUE, readable |-> TRUE, entries |-> entries, size |-> 4096,
     content |-> << >>]
LockedDirNode ==
    [dir |-> TRUE, readable |-> FALSE, entries |-> << >>, size |-> 4096,
     content |-> << >>]
FileNode(size, content) ==
    [dir |-> FALSE, readable |-> TRUE, entries |-> << >>, size |-> size,
     content |-> content]

\* The text appended to a truncated read (index.js line 329), one token.
ReadMarker == "... (truncated)"

FsRoot == 1

FsNodes == <<
    (* 1  /        *) DirNode(<< Entry(<<"w">>, 2), Entry(<<"q">>, 5),
                                 Entry(<<"p", " ">>, 4), Entry(<<"p">>, 3) >>),
    (* 2  /w       *) DirNode(<< Entry(<<"t">>, 19) >>),
    (* 3  /p       *) DirNode(<< Entry(<<"s", "r", "c">>, 6),
                                 Entry(<<"k", ".", "P", "E", "M">>, 9),
                                 Entry(<<".", "e", "n", "v">>, 7),
                                 SymLink(<<"x">>, NoNode),
                                 Entry(<<"f">>, 8),
                                 Entry(<<".", ".", "c">>, 10),
                                 Entry(<<".", "g", "i", "t">>, 11),
                                 SymLink(<<"l", "n", "k">>, 5),
                                 Entry(<<"b", "i", "g">>, 12) >>),
    (* 4  "/p "    *) DirNode(<< Entry(<<"s">>, 18) >>),
    (* 5  /q       *) DirNode(<< Entry(<<"o">>, 20), Entry(<<"M">>, 22),
                                 Entry(<<"d">>, 21) >>),
    (* 6  /p/src   *) DirNode(<< Entry(<<"b">>, 13), SymLink(<<"u", "p">>, 3),
                                 Entry(<<"a">>, 14) >>),
    (* 7  .env     *) FileNode(7, << "K", "=", "1" >>),
    (* 8  f        *) FileNode(5, << "a", "\n", "b", "\n", "c" >>),
    (* 9  k.PEM    *) FileNode(3, << "k", "e", "y" >>),
    (* 10 /p/..c   *) DirNode(<< Entry(<<"c">>, 16) >>),
    (* 11 /p/.git  *) DirNode(<< Entry(<<"h">>, 17) >>),
    (* 12 big      *) FileNode(2000000, << "b" >>),
    (* 13 src/b    *) FileNode(17, << "x", "\n", ReadMarker >>),
    (* 14 src/a    *) DirNode(<< Entry(<<"z">>, 15) >>),
    (* 15 src/a/z  *) FileNode(2, << "z", "\n" >>),
    (* 16 ..c/c    *) FileNode(1, << "c" >>),
    (* 17 .git/h   *) FileNode(1, << "h" >>),
    (* 18 "p "/s   *) FileNode(6, << "s", "e", "c", "r", "e", "t" >>),
    (* 19 /w/t     *) FileNode(1, << "t" >>),
    (* 20 /q/o     *) FileNode(1, << "o" >>),
    (* 21 /q/d     *) LockedDirNode,
    (* 22 /q/M     *) FileNode(1, << "m" >>)
>>

\* The most symbolic links one path resolution follows before the kernel
\* fails it with ELOOP (40 on Linux).
SymLoopMax == 2

\* The entry `name` of directory node n, or a record to NoNode.
FsEntry(n, name) ==
    LET es == FsNodes[n].entries IN
    IF \E i \in 1..Len(es) : es[i].name = name
    THEN es[CHOOSE i \in 1..Len(es) : es[i].name = name]
    ELSE Entry(name, NoNode)

\* The node a sequence of segments leads to from node n, having followed
\* `links` symbolic links already; NoNode when there is none.
RECURSIVE FsWalk(_, _, _)
FsWalk(n, segs, links) ==
    IF segs = << >> THEN n
    ELSE IF ~FsNodes[n].dir THEN NoNode
    ELSE Only({ LET k == IF e.link THEN links + 1 ELSE links
                IN  IF e.to = NoNode \/ k > SymLoopMax THEN NoNode
                    ELSE FsWalk(e.to, Tail(segs), k) :
                e \in { FsEntry(n, Head(segs)) } })

\* The node of an absolute path (links followed), or NoNode.
FsLookup(p) == Only({ FsWalk(FsRoot, segs, 0) : segs \in { ResolvedSegs(p) } })

\* fs.stat(p): throws when nothing is there.
FsStat(p) ==
    Only({ IF n = NoNode THEN [ok |-> FALSE, isDir |-> FALSE, size |-> 0]
           ELSE [ok |-> TRUE, isDir |-> FsNodes[n].dir, size |-> FsNodes[n].size] :
           n \in { FsLookup(p) } })

\* existsSync(p)
FsExists(p) == FsLookup(p) # NoNode

\* fs.readdir(p): the names in directory order; throws for a missing path,
\* a file, and a directory that may not be listed.
FsReaddir(p) ==
    Only({ IF n = NoNode \/ ~FsNodes[n].dir \/ ~FsNodes[n].readable
           THEN [ok |-> FALSE, names |-> << >>]
           ELSE [ok |-> TRUE,
                 names |-> [i \in 1..Len(FsNodes[n].entries) |->
                               FsNodes[n].entries[i].name]] :
           n \in { FsLookup(p) } })

\* fs.readFile(p, 'utf8'): throws for a missing path and for a directory.
FsReadFile(p) ==
    LET n == FsLookup(p) IN
    IF n = NoNode \/ FsNodes[n].dir THEN [ok |-> FALSE, content |-> << >>]
    ELSE [ok |-> TRUE, content |-> FsNodes[n].content]

\* The path strings of the model.
P_root   == << "/" >>
P_w      == << "/", "w" >>
P_p      == << "/", "p" >>
P_psp    == << "/", "p", " " >>
P_q      == << "/", "q" >>
P_src    == << "/", "p", "/", "s", "r", "c" >>

----------------------------------------------------------------------------
(* The configuration (DEFAULT_CONFIG, index.js lines 15-40)                *)

\* config.token: ensureConfig never leaves it empty (lines 48, 62).
ConfigToken == << "t", "o", "k" >>

ConfigMaxFileSize == 1048576
ConfigMaxReadLines == 10000
ConfigMaxDepth == 4
ConfigMaxEntries == 800

\* The hard ceilings of a scan request (lines 260, 261).
MaxDepthCeiling == 8
MaxEntriesCeiling == 1500

\* config.forbiddenExtensions (of the default list: .env, .key, .pem).
ForbiddenExtensions ==
    { << ".", "e", "n", "v" >>, << ".", "k", "e", "y" >>, << ".", "p", "e", "m" >> }

\* config.ignoredDirs (of the default list: .git, dist).
IgnoredDirs == { << ".", "g", "i", "t" >>, << "d", "i", "s", "t" >> }

----------------------------------------------------------------------------
(* normalizePath, isWithinAllowed, isForbiddenExtension                    *)

\* normalizePath(inputPath) = path.resolve(String(inputPath || '').trim())
normalizePath(inputPath) == PathResolve(Trim(inputPath))

\* The test of one allowed base (the callback of allowedPaths.some).
IsWithinBase(resolved, base) ==
    LET root == normalizePath(base)
        rel  == PathRelative(root, resolved)
    IN  \/ resolved = root
        \/ /\ rel # << >>
           /\ ~StartsWith(rel, << ".", "." >>)
           /\ ~PathIsAbsolute(rel)

\* isWithinAllowed(targetPath, allowedPaths)
isWithinAllowed(targetPath, allowedPaths) ==
    IF Len(allowedPaths) = 0 THEN FALSE
    ELSE LET resolved == normalizePath(targetPath)
         IN  \E i \in 1..Len(allowedPaths) : IsWithinBase(resolved, allowedPaths[i])

\* isForbiddenExtension(filePath, forbiddenExtensions)
isForbiddenExtension(filePath, forbiddenExtensions) ==
    ToLowerCase(PathExtname(filePath)) \in forbiddenExtensions

----------------------------------------------------------------------------
(* String.prototype.localeCompare and Array.prototype.sort                 *)

\* The collation order of the characters file names are made of: white
\* space, punctuation, then the letters, a capital with its small letter.
CollationOrder ==
    << " ", ".", "a", "b", "c", "d", "e", "f", "g", "h", "i", "j", "k", "l", "m",
       "n", "o", "p", "q", "r", "s", "t", "u", "v", "w", "x", "y", "z" >>

CharRank(c) ==
    LET l == LowerChar(c) IN
    IF \E i \in 1..Len(CollationOrder) : CollationOrder[i] = l
    THEN CHOOSE i \in 1..Len(CollationOrder) : CollationOrder[i] = l
    ELSE Len(CollationOrder) + 1

\* The comparison of the primary weights, character by character.
RECURSIVE PrimaryCompare(_, _)
PrimaryCompare(a, b) ==
    IF a = << >> /\ b = << >> THEN 0
    ELSE IF a = << >> THEN -1
    ELSE IF b = << >> THEN 1
    ELSE IF CharRank(Head(a)) < CharRank(Head(b)) THEN -1
    ELSE IF CharRank(Head(a)) > CharRank(Head(b)) THEN 1
    ELSE PrimaryCompare(Tail(a), Tail(b))

\* The tie-break of two names equal up to case: at the first difference the
\* small letter goes first.
RECURSIVE CaseCompare(_, _)
CaseCompare(a, b) ==
    IF a = << >> \/ b = << >> THEN 0
    ELSE IF Head(a) = Head(b) THEN CaseCompare(Tail(a), Tail(b))
    ELSE IF LowerChar(Head(a)) = Head(a) THEN -1 ELSE 1

\* a.localeCompare(b): negative, zero or positive.
localeCompare(a, b) ==
    LET c == PrimaryCompare(a, b) IN IF c # 0 THEN c ELSE CaseCompare(a, b)

\* One name put in its place in a sorted list (after its equals: the sort
\* is stable).
RECURSIVE InsertSorted(_, _)
InsertSorted(sorted, name) ==
    IF sorted = << >> THEN << name >>
    ELSE IF localeCompare(name, Head(sorted)) < 0 THEN << name >> \o sorted
    ELSE << Head(sorted) >> \o InsertSorted(Tail(sorted), name)

RECURSIVE SortFrom(_, _)
SortFrom(names, sorted) ==
    IF names = << >> THEN sorted
    ELSE Only({ SortFrom(Tail(names), s) : s \in { InsertSorted(sorted, Head(names)) } })

\* The entries as readdir returned them: C8_PreOrderListing does not hold of it.
SortDirents_Unsorted(names) == names

\* dirents.sort((a, b) => a.localeCompare(b))
SortDirents(names) == Only({ SortFrom(ns, << >>) : ns \in { names } })

----------------------------------------------------------------------------
(* scanDirTree (index.js lines 87-133)                                     *)
(*                                                                         *)
(* A line is a sequence of tokens: one Indent per level of the prefix, the *)
(* icon, then the characters of the name.  The state of a scan is a record *)
(* of the closure's variables (lines, entriesCount), the stack of the      *)
(* calls of walk that have not returned, and the file-system calls made.   *)

Indent      == "  "
DirIcon     == "<dir> "
FileIcon    == "<file> "
ScanMarker  == "...(truncated)"

EntryLine(prefix, isDir, name) ==
    prefix \o << IF isDir THEN DirIcon ELSE FileIcon >> \o name

\* A call of walk(dir, depth, prefix) that has not read its directory yet.
WalkCall(dir, depth, prefix) ==
    [dir |-> dir, depth |-> depth, prefix |-> prefix, entered |-> FALSE,
     names |-> << >>]

FsCall(op, path) == [op |-> op, path |-> path]

\* scanDirTree(rootDir, opts) at its call of walk(rootDir, 0, '').
ScanStart(rootDir, opts) ==
    [rootDir |-> rootDir, opts |-> opts, lines |-> << >>, entriesCount |-> 0,
     stack |-> << WalkCall(rootDir, 0, << >>) >>, calls |-> << >>, done |-> FALSE]

\* A walk that does not return: C20_ScanTerminates does not hold of it.
Pop_Stay(stack) == stack

Pop(stack) == SubSeq(stack, 1, Len(stack) - 1)
ReplaceTop(stack, f) == [stack EXCEPT ![Len(stack)] = f]

\* The start of a call of walk (lines 92-102): the two early returns, then
\* readdir and the sort.
WalkEnter(s) ==
    LET f  == s.stack[Len(s.stack)]
        rd == FsReaddir(f.dir)
    IN  IF JsGe(Num(s.entriesCount), s.opts.maxEntries) THEN [s EXCEPT !.stack = Pop(@)]
        ELSE IF JsGt(Num(f.depth), s.opts.maxDepth) THEN [s EXCEPT !.stack = Pop(@)]
        ELSE IF ~rd.ok
             THEN [s EXCEPT !.stack = Pop(@),
                            !.calls = Append(@, FsCall("readdir", f.dir))]
             ELSE [s EXCEPT !.stack = ReplaceTop(@, [f EXCEPT !.entered = TRUE,
                                                   !.names = SortDirents(rd.names)]),
                            !.calls = Append(@, FsCall("readdir", f.dir))]

\* One turn of the loop over the sorted names (lines 104-123).
WalkEntry(s) ==
    LET f        == s.stack[Len(s.stack)]
        name     == Head(f.names)
        fullPath == PathJoin(f.dir, name)
        stat     == FsStat(fullPath)
        rest     == [f EXCEPT !.names = Tail(@)]
    IN  IF JsGe(Num(s.entriesCount), s.opts.maxEntries) THEN [s EXCEPT !.stack = Pop(@)]
        ELSE IF name \in s.opts.ignoredDirs
             THEN [s EXCEPT !.stack = ReplaceTop(@, rest)]
        ELSE IF ~stat.ok
             THEN [s EXCEPT !.stack = ReplaceTop(@, rest),
                            !.calls = Append(@, FsCall("stat", fullPath))]
        ELSE [s EXCEPT
                !.entriesCount = @ + 1,
                !.lines = Append(@, EntryLine(f.prefix, stat.isDir, name)),
                !.calls = Append(@, FsCall("stat", fullPath)),
                !.stack = IF stat.isDir
                          THEN Append(ReplaceTop(@, rest),
                                      WalkCall(fullPath, f.depth + 1,
                                               Append(f.prefix, Indent)))
                          ELSE ReplaceTop(@, rest)]

\* After walk(rootDir, 0, '') has returned (lines 128-132).
ScanReturn(s) ==
    [s EXCEPT !.done = TRUE,
              !.lines = IF JsGe(Num(s.entriesCount), s.opts.maxEntries)
                        THEN Append(@, << ScanMarker >>) ELSE @]

\* One step of a scan that is not done.
ScanStep(s) ==
    IF s.stack = << >> THEN ScanReturn(s)
    ELSE LET f == s.stack[Len(s.stack)] IN
         IF ~f.entered THEN WalkEnter(s)
         ELSE IF f.names = << >> THEN [s EXCEPT !.stack = Pop(@)]
         ELSE WalkEntry(s)

\* The scan run to its end.
RECURSIVE RunScan(_)
RunScan(s) == IF s.done THEN s ELSE RunScan(ScanStep(s))

\* scanDirTree(rootDir, opts)
scanDirTree(rootDir, opts) == RunScan(ScanStart(rootDir, opts))

----------------------------------------------------------------------------
(* The requests a client may send                                          *)

\* The values of the x-bridge-token header: absent, right, wrong.
TokenInputs == { << >>, ConfigToken, << "b", "a", "d" >> }

\* The path strings of scan and read requests.
RawPaths ==
    {
      (* ''             *) << >>,
      (* ' '            *) << " " >>,
      (* '/p'           *) << "/", "p" >>,
      (* '/p /'         *) << "/", "p", " ", "/" >>,
      (* '/p '          *) << "/", "p", " " >>,
      (* '/p/'          *) << "/", "p", "/" >>,
      (* '/q'           *) << "/", "q" >>,
      (* '/w'           *) << "/", "w" >>,
      (* 't'            *) << "t" >>,
      (* '/p/src'       *) << "/", "p", "/", "s", "r", "c" >>,
      (* '/p/.env'      *) << "/", "p", "/", ".", "e", "n", "v" >>,
      (* '/p/f'         *) << "/", "p", "/", "f" >>,
      (* '/p/k.PEM'     *) << "/", "p", "/", "k", ".", "P", "E", "M" >>,
      (* '/p/big'       *) << "/", "p", "/", "b", "i", "g" >>,
      (* '/p/src/b'     *) << "/", "p", "/", "s", "r", "c", "/", "b" >>,
      (* '/p/src/a/z'   *) << "/", "p", "/", "s", "r", "c", "/", "a", "/", "z" >>,
      (* '/p/src/a'     *) << "/", "p", "/", "s", "r", "c", "/", "a" >>,
      (* '/p/..c'       *) << "/", "p", "/", ".", ".", "c" >>,
      (* '/p/..c/c'     *) << "/", "p", "/", ".", ".", "c", "/", "c" >>,
      (* '/p/../q/o'    *) << "/", "p", "/", ".", ".", "/", "q", "/", "o" >>,
      (* '/p/../q'      *) << "/", "p", "/", ".", ".", "/", "q" >>,
      (* '/p/src/../f'  *) << "/", "p", "/", "s", "r", "c", "/", ".", ".", "/", "f" >>,
      (* '/p/lnk'       *) << "/", "p", "/", "l", "n", "k" >>,
      (* '/p/lnk/o'     *) << "/", "p", "/", "l", "n", "k", "/", "o" >>,
      (* '/p /s'        *) << "/", "p", " ", "/", "s" >>,
      (* '/p/nope'      *) << "/", "p", "/", "n", "o", "p", "e" >>,
      (* '/q/o'         *) << "/", "q", "/", "o" >>,
      (* '/q/d'         *) << "/", "q", "/", "d" >>,
      (* '/p/src/up'    *) << "/", "p", "/", "s", "r", "c", "/", "u", "p" >>
    }

\* The values of the maxDepth and maxEntries query parameters: absent,
\* zero, negative, small, above the ceiling, not a number.
QueryValues ==
    { << >>,
      << "0" >>,
      << "-", "1" >>,
      << "2" >>,
      << "5" >>,
      << "9", "9", "9", "9" >>,
      << "a", "b", "c" >> }

\* The (maxDepth, maxEntries) pairs of the scan requests sent to the
\* server: one parameter given, the other left to the configuration.
ScanQueryPairs ==
    { << d, e >> \in QueryValues \X QueryValues : d = << >> \/ e = << >> }

\* The maxLines of a read request: absent, or a number.
NoMaxLines == [given |-> FALSE, v |-> 0]
MaxLinesInputs == { NoMaxLines } \cup { [given |-> TRUE, v |-> n] : n \in -1..3 }

\* The paths and actions of authorization-mutation requests.
RootInputs ==
    { << >>, << " " >>, << "/", "p" >>, << "/", "p", " ", "/" >>,
      << "/", "p", "/", "f" >>, << "/", "p", "/", "n", "o", "p", "e" >> }

ActionInputs == { "add", "remove", "setActive", "clear" }

----------------------------------------------------------------------------
(* The request handlers (index.js lines 173-409)                           *)

\* What a handler answers: the HTTP status, the code of an error body (or
\* "OK"), the file-system calls the request made, and the body.  `req` and
\* `cfg` (the configuration as the handler found it) are kept with it.
Response(route, req, cfg, status, code, calls, body) ==
    [route |-> route, req |-> req, cfg |-> cfg, status |-> status,
     code |-> code, calls |-> calls, body |-> body]

NoBody == [message |-> "none"]
ErrorBody(message) == [message |-> message]

\* A gate that refuses only the absent token: C5_TokenGate does not hold of it.
requireToken_AnyToken(token) == token # << >>

\* requireToken (lines 173-182): TRUE when the request goes on to the handler.
requireToken(token) == ~(token = << >> \/ token # ConfigToken)

Unauthorized(route, req, cfg) ==
    Response(route, req, cfg, 401, "UNAUTHORIZED", << >>,
             ErrorBody("Missing or invalid bridge token"))

\* Math.min(Number(req.query.x || config.x), ceiling)  (lines 260, 261)
ClampLimit(queryValue, configValue, ceiling) ==
    MathMin(IF queryValue # << >> THEN StringToNumber(queryValue) ELSE Num(configValue),
            Num(ceiling))

ScanOpts(q) ==
    [maxDepth    |-> ClampLimit(q.maxDepth, ConfigMaxDepth, MaxDepthCeiling),
     maxEntries  |-> ClampLimit(q.maxEntries, ConfigMaxEntries, MaxEntriesCeiling),
     ignoredDirs |-> IgnoredDirs]

\* GET /project/scan (lines 258-294)
ScanHandler(cfg, token, q) ==
    LET req          == [token |-> token, path |-> q.path, maxDepth |-> q.maxDepth,
                         maxEntries |-> q.maxEntries]
        Reply(status, code, calls, body) ==
            Response("scan", req, cfg, status, code, calls, body)
        pathParam    == IF q.path # << >> THEN q.path ELSE cfg.activeProjectRoot
        opts         == ScanOpts(q)
        resolvedPath == normalizePath(pathParam)
        stat         == FsStat(resolvedPath)
        statCall     == << FsCall("stat", resolvedPath) >>
        result       == scanDirTree(resolvedPath, opts)
    IN  IF ~requireToken(token) THEN Unauthorized("scan", req, cfg)
        ELSE IF pathParam = << >>
             THEN Reply(400, "INVALID_REQUEST", << >>, ErrorBody("path is required"))
        ELSE IF ~isWithinAllowed(resolvedPath, cfg.allowedPaths)
             THEN Reply(403, "ACCESS_DENIED", << >>, ErrorBody("Path not allowed"))
        ELSE IF ~stat.ok
             THEN Reply(404, "NOT_FOUND", statCall, ErrorBody("Path not found"))
        ELSE IF ~stat.isDir
             THEN Reply(400, "NOT_DIRECTORY", statCall,
                        ErrorBody("Path is not a directory"))
        ELSE Reply(200, "OK", statCall \o result.calls,
                   [currentDir    |-> resolvedPath,
                    fileStructure |-> Join(result.lines, "\n"),
                    limits        |-> [maxDepth |-> opts.maxDepth,
                                       maxEntries |-> opts.maxEntries]])

\* A size test that lets every file through: C9_SizeBeforeRead does not hold of it.
SizeAllowed_Always(size, maxFileSize) == TRUE

\* The size test of a read (line 317): TRUE when the file may be read.
SizeAllowed(size, maxFileSize) == ~(size > maxFileSize)

\* The content a read returns (lines 325-331).
TruncateContent(content, maxLines) ==
    IF maxLines # 0 /\ maxLines > 0
    THEN LET lines == Split(content, "\n") IN
         IF Len(lines) > maxLines
         THEN Join(SubSeq(lines, 1, maxLines), "\n") \o << "\n", ReadMarker >>
         ELSE content
    ELSE content

\* POST /fs/read (lines 296-346)
ReadHandler(cfg, token, body) ==
    LET req          == [token |-> token, path |-> body.path, maxLines |-> body.maxLines]
        Reply(status, code, calls, b) ==
            Response("read", req, cfg, status, code, calls, b)
        filePath     == body.path
        maxLines     == IF body.maxLines.given THEN body.maxLines.v
                        ELSE ConfigMaxReadLines
        resolvedPath == normalizePath(filePath)
        existsCall   == << FsCall("existsSync", resolvedPath) >>
        stats        == FsStat(resolvedPath)
        statCall     == << FsCall("stat", resolvedPath) >>
        read         == FsReadFile(resolvedPath)
        readCall     == << FsCall("readFile", resolvedPath) >>
        content      == read.content
        finalContent == TruncateContent(content, maxLines)
    IN  IF ~requireToken(token) THEN Unauthorized("read", req, cfg)
        ELSE IF filePath = << >>
             THEN Reply(400, "INVALID_REQUEST", << >>, ErrorBody("File path is required"))
        ELSE IF ~isWithinAllowed(resolvedPath, cfg.allowedPaths)
             THEN Reply(403, "ACCESS_DENIED", << >>, ErrorBody("Path not allowed"))
        ELSE IF isForbiddenExtension(resolvedPath, ForbiddenExtensions)
             THEN Reply(403, "ACCESS_DENIED", << >>, ErrorBody("Forbidden file type"))
        ELSE IF ~FsExists(resolvedPath)
             THEN Reply(404, "NOT_FOUND", existsCall, ErrorBody("File not found"))
        ELSE IF ~SizeAllowed(stats.size, ConfigMaxFileSize)
             THEN Reply(413, "FILE_TOO_LARGE", existsCall \o statCall,
                        [message |-> "File too large", size |-> stats.size,
                         max |-> ConfigMaxFileSize])
        ELSE IF ~read.ok
             \* readFile rejects (a directory): the async handler throws and
             \* no response is sent.
             THEN Reply(0, "UNHANDLED_REJECTION", existsCall \o statCall \o readCall,
                        NoBody)
        ELSE Reply(200, "OK", existsCall \o statCall \o readCall,
                   [path      |-> filePath,
                    content   |-> finalContent,
                    size      |-> stats.size,
                    lines     |-> Len(Split(finalContent, "\n")),
                    truncated |-> content # finalContent])

\* GET /env (lines 233-256): the four version commands are run.
EnvHandler(cfg, token) ==
    LET req == [token |-> token] IN
    IF ~requireToken(token) THEN Unauthorized("env", req, cfg)
    ELSE Response("env", req, cfg, 200, "OK",
                  << FsCall("execSync", << "node -v" >>),
                     FsCall("execSync", << "npm -v" >>),
                     FsCall("execSync", << "git --version" >>),
                     FsCall("execSync", << "pnpm -v" >>) >>,
                  [isLocalConnected |-> TRUE])

\* GET /config (lines 348-362)
ConfigGetHandler(cfg, token) ==
    LET req == [token |-> token] IN
    IF ~requireToken(token) THEN Unauthorized("config", req, cfg)
    ELSE Response("config", req, cfg, 200, "OK", << >>,
                  [allowedPaths |-> cfg.allowedPaths,
                   activeProjectRoot |-> cfg.activeProjectRoot, readOnly |-> TRUE])

\* Array.prototype.includes and filter((p) => p !== resolved)
Includes(seq, x) == \E i \in 1..Len(seq) : seq[i] = x
RECURSIVE Without(_, _)
Without(seq, x) ==
    IF seq = << >> THEN << >>
    ELSE IF Head(seq) = x THEN Without(Tail(seq), x)
    ELSE << Head(seq) >> \o Without(Tail(seq), x)

\* An add that pushes the path whether or not it is there: C14_AddRoot does
\* not hold of it.
AddRoot_Duplicate(cfg, resolved) ==
    [allowedPaths |-> Append(cfg.allowedPaths, resolved),
     activeProjectRoot |-> IF cfg.activeProjectRoot = << >> THEN resolved
                           ELSE cfg.activeProjectRoot]

\* A remove that leaves activeProjectRoot alone: C11_ActiveIsMember does not
\* hold of it.
RemoveRoot_KeepActive(cfg, resolved) ==
    [allowedPaths |-> Without(cfg.allowedPaths, resolved),
     activeProjectRoot |-> cfg.activeProjectRoot]

\* A remove that makes the last path left the active one: C12_RemoveRoot
\* does not hold of it.
RemoveRoot_LastLeft(cfg, resolved) ==
    LET left == Without(cfg.allowedPaths, resolved)
    IN  [allowedPaths |-> left,
         activeProjectRoot |->
             IF cfg.activeProjectRoot = resolved
             THEN (IF left # << >> THEN left[Len(left)] ELSE << >>)
             ELSE cfg.activeProjectRoot]

\* The three mutations (lines 382-398), on a resolved directory path.
AddRoot(cfg, resolved) ==
    LET added == IF Includes(cfg.allowedPaths, resolved) THEN cfg.allowedPaths
                 ELSE Append(cfg.allowedPaths, resolved)
    IN  [allowedPaths |-> added,
         activeProjectRoot |-> IF cfg.activeProjectRoot = << >> THEN resolved
                               ELSE cfg.activeProjectRoot]

RemoveRoot(cfg, resolved) ==
    LET left == Without(cfg.allowedPaths, resolved)
    IN  [allowedPaths |-> left,
         activeProjectRoot |->
             IF cfg.activeProjectRoot = resolved
             THEN (IF left # << >> /\ left[1] # << >> THEN left[1] ELSE << >>)
             ELSE cfg.activeProjectRoot]

SetActiveRoot(cfg, resolved) == [cfg EXCEPT !.activeProjectRoot = resolved]

\* POST /config/allowed-paths (lines 364-409): the answer, and the
\* configuration in memory and on disk after it.
AllowedPathsHandler(cfg, disk, token, body) ==
    LET req      == [token |-> token, action |-> body.action, path |-> body.path]
        Reply(status, code, calls, b) ==
            [config |-> cfg, persisted |-> disk,
             resp |-> Response("allowed-paths", req, cfg, status, code, calls, b)]
        resolved == normalizePath(body.path)
        stats    == FsStat(resolved)
        statCall == << FsCall("stat", resolved) >>
        Saved(new) ==
            [config |-> new, persisted |-> new,
             resp |-> Response("allowed-paths", req, cfg, 200, "OK",
                               statCall \o << FsCall("writeFile", << "CONFIG_PATH" >>) >>,
                               [allowedPaths |-> new.allowedPaths,
                                activeProjectRoot |-> new.activeProjectRoot])]
    IN  IF ~requireToken(token)
        THEN [config |-> cfg, persisted |-> disk,
              resp |-> Unauthorized("allowed-paths", req, cfg)]
        ELSE IF body.path = << >>
             THEN Reply(400, "INVALID_REQUEST", << >>, ErrorBody("path is required"))
        ELSE IF ~stats.ok
             THEN Reply(404, "NOT_FOUND", statCall, ErrorBody("Path not found"))
        ELSE IF ~stats.isDir
             THEN Reply(400, "NOT_DIRECTORY", statCall,
                        ErrorBody("Path is not a directory"))
        ELSE IF body.action = "add" THEN Saved(AddRoot(cfg, resolved))
        ELSE IF body.action = "remove" THEN Saved(RemoveRoot(cfg, resolved))
        ELSE IF body.action = "setActive"
             THEN IF ~Includes(cfg.allowedPaths, resolved)
                  THEN Reply(400, "INVALID_REQUEST", statCall,
                             ErrorBody("Path not in allowlist"))
                  ELSE Saved(SetActiveRoot(cfg, resolved))
        ELSE Reply(400, "INVALID_REQUEST", statCall, ErrorBody("Invalid action"))

----------------------------------------------------------------------------
(* State                                                                   *)

VARIABLES
    config,     \* allowedPaths and activeProjectRoot of the config object
    persisted,  \* the same two fields as bridge.config.json holds them
    resp,       \* the response of the request being answered, or NoResp
    authP,      \* SpecAuth: the path given to isWithinAllowed
    authR,      \* SpecAuth: the allowed paths given to it
    authDone,   \* SpecAuth: whether it has been called
    authV,      \* SpecAuth: its verdict
    scan,       \* SpecScan: the state of one scanDirTree call
    inflight,   \* SpecConc: the mutation requests that have not been answered
    ui          \* SpecUi: the state of the page of the Bridge UI

vars == << config, persisted, resp, authP, authR, authDone, authV, scan, inflight, ui >>

NoResp == [route |-> "none"]

\* The configuration of a first start (DEFAULT_CONFIG, lines 17-18).
DefaultConfig == [allowedPaths |-> << >>, activeProjectRoot |-> << >>]

NoScan ==
    [rootDir |-> << >>, opts |-> ScanOpts([maxDepth |-> << >>, maxEntries |-> << >>]),
     lines |-> << >>, entriesCount |-> 0, stack |-> << >>, calls |-> << >>,
     done |-> TRUE]

ServerIdle ==
    /\ config = DefaultConfig
    /\ persisted = DefaultConfig
    /\ resp = NoResp

AuthIdle == authP = << >> /\ authR = << >> /\ authDone = FALSE /\ authV = FALSE

ScanIdle == scan = NoScan

ConcIdle == inflight = {}

\* The page is not open.
NoUi == [pc |-> "closed"]
UiIdle == ui = NoUi

----------------------------------------------------------------------------
(* Spec: the server, one request answered at a time                        *)

Init == ServerIdle /\ AuthIdle /\ ScanIdle /\ ConcIdle /\ UiIdle

EnvRequest ==
    /\ resp = NoResp
    /\ \E token \in TokenInputs : resp' = EnvHandler(config, token)
    /\ UNCHANGED << config, persisted, authP, authR, authDone, authV, scan, inflight, ui >>

ConfigGetRequest ==
    /\ resp = NoResp
    /\ \E token \in TokenInputs : resp' = ConfigGetHandler(config, token)
    /\ UNCHANGED << config, persisted, authP, authR, authDone, authV, scan, inflight, ui >>

ScanRequest ==
    /\ resp = NoResp
    /\ \E token \in TokenInputs, path \in RawPaths, pair \in ScanQueryPairs :
          resp' = ScanHandler(config, token,
                      [path |-> path, maxDepth |-> pair[1], maxEntries |-> pair[2]])
    /\ UNCHANGED << config, persisted, authP, authR, authDone, authV, scan, inflight, ui >>

ReadRequest ==
    /\ resp = NoResp
    /\ \E token \in TokenInputs, path \in RawPaths, maxLines \in MaxLinesInputs :
          resp' = ReadHandler(config, token, [path |-> path, maxLines |-> maxLines])
    /\ UNCHANGED << config, persisted, authP, authR, authDone, authV, scan, inflight, ui >>

AllowedPathsRequest ==
    /\ resp = NoResp
    /\ \E token \in TokenInputs, action \in ActionInputs, path \in RootInputs :
          LET out == AllowedPathsHandler(config, persisted, token,
                                         [action |-> action, path |-> path])
          IN  /\ config' = out.config
              /\ persisted' = out.persisted
              /\ resp' = out.resp
    /\ UNCHANGED << authP, authR, authDone, authV, scan, inflight, ui >>

\* The response has been sent: the next request is taken.
Deliver ==
    /\ resp # NoResp
    /\ resp' = NoResp
    /\ UNCHANGED << config, persisted, authP, authR, authDone, authV, scan, inflight, ui >>

Next ==
    \/ EnvRequest
    \/ ConfigGetRequest
    \/ ScanRequest
    \/ ReadRequest
    \/ AllowedPathsRequest
    \/ Deliver

Spec == Init /\ [][Next]_vars

----------------------------------------------------------------------------
(* SpecAuth: isWithinAllowed applied to a path and a list of allowed paths *)

\* The resolved directories POST /config/allowed-paths may have stored.
AuthRoots == { P_p, P_psp, P_q, P_w }

\* The longest list of allowed paths of SpecAuth.
MaxAuthRoots == 2

\* The lists of distinct allowed paths, as `add` builds them.
RootLists ==
    UNION { { r \in [1..n -> AuthRoots] : \A i, j \in 1..n : i # j => r[i] # r[j] } :
            n \in 0..MaxAuthRoots }

\* What follows an allowed path in a traversal attempt.
TraversalSuffixes ==
    { << "/", ".", "." >>,
      << "/", ".", ".", "/", "q" >>,
      << "/", ".", ".", "/", "q", "/", "o" >>,
      << "/", ".", ".", "/", "p", "/", "f" >>,
      << "/", ".", ".", "/", "p", " ", "/", "s" >>,
      << "/", ".", ".", "/", ".", ".", "/", "e", "t", "c" >>,
      << "/", "s", "r", "c", "/", ".", ".", "/", "f" >>,
      << "/", "x", "/", ".", ".", "/", ".", ".", "c" >>,
      << "/", ".", ".", "/", "p" >> }

TraversalPaths == { r \o suffix : r \in AuthRoots, suffix \in TraversalSuffixes }

AuthInit ==
    /\ config = DefaultConfig /\ persisted = DefaultConfig /\ resp = NoResp
    /\ ScanIdle /\ ConcIdle /\ UiIdle
    /\ authP \in RawPaths \cup TraversalPaths
    /\ authR \in RootLists
    /\ authDone = FALSE
    /\ authV = FALSE

AuthCheck ==
    /\ ~authDone
    /\ authDone' = TRUE
    /\ authV' = isWithinAllowed(authP, authR)
    /\ UNCHANGED << config, persisted, resp, authP, authR, scan, inflight, ui >>

AuthNext == AuthCheck

SpecAuth == AuthInit /\ [][AuthNext]_vars

----------------------------------------------------------------------------
(* SpecScan: one call of scanDirTree, a file-system call at a time         *)

\* The directories a scan starts from.
ScanRoots == { P_root, P_p, P_psp, P_q, P_w, P_src,
               << "/", "p", "/", "l", "n", "k" >>,
               << "/", "p", "/", "s", "r", "c", "/", "a" >> }

\* The scan as the handler of GET /project/scan starts it (line 283), for
\* every maxDepth and maxEntries a request may carry.
ScanInit ==
    /\ config = DefaultConfig /\ persisted = DefaultConfig /\ resp = NoResp
    /\ AuthIdle /\ ConcIdle /\ UiIdle
    /\ \E rootDir \in ScanRoots, d \in QueryValues, e \in QueryValues :
          scan = ScanStart(rootDir, ScanOpts([maxDepth |-> d, maxEntries |-> e]))

ScanRunning == ~scan.done /\ scan.stack # << >>
ScanTop == scan.stack[Len(scan.stack)]

\* walk is called: the early returns, readdir, sort.
ScanWalkEnter ==
    /\ ScanRunning /\ ~ScanTop.entered
    /\ scan' = ScanStep(scan)
    /\ UNCHANGED << config, persisted, resp, authP, authR, authDone, authV, inflight, ui >>

\* One name of the loop.
ScanWalkEntry ==
    /\ ScanRunning /\ ScanTop.entered /\ ScanTop.names # << >>
    /\ scan' = ScanStep(scan)
    /\ UNCHANGED << config, persisted, resp, authP, authR, authDone, authV, inflight, ui >>

\* The loop is over: walk returns.
ScanWalkReturn ==
    /\ ScanRunning /\ ScanTop.entered /\ ScanTop.names = << >>
    /\ scan' = ScanStep(scan)
    /\ UNCHANGED << config, persisted, resp, authP, authR, authDone, authV, inflight, ui >>

\* The outermost walk has returned: the marker, and the result.
ScanFinish ==
    /\ ~scan.done /\ scan.stack = << >>
    /\ scan' = ScanStep(scan)
    /\ UNCHANGED << config, persisted, resp, authP, authR, authDone, authV, inflight, ui >>

ScanNext == ScanWalkEnter \/ ScanWalkEntry \/ ScanWalkReturn \/ ScanFinish

SpecScan == ScanInit /\ [][ScanNext]_vars

\* The scan goes on as long as it has a step to take: every await of walk
\* is on a file-system call, which the operating system answers.
SpecScanFair == SpecScan /\ WF_vars(ScanNext)

----------------------------------------------------------------------------
(* SpecConc: POST /config/allowed-paths requests in flight together        *)
(*                                                                         *)
(* The handler (lines 364-409) gives up control twice: at `await fs.stat`  *)
(* (line 373) and at `await fs.writeFile` (line 403).  What lies between   *)
(* the two runs without interruption: the checks, the mutation of the      *)
(* config object, and JSON.stringify(config), which fixes the text the     *)
(* write will leave in the file.  Writes of several requests to the one    *)
(* file are not ordered by anything: the file holds the text of the write  *)
(* that finishes last.                                                     *)

\* The most requests in flight at a time.
MaxInflight == 2

\* The paths and actions of the requests: two directories, and a path
\* where nothing is.
ConcPaths ==
    { << "/", "p" >>, << "/", "p", " ", "/" >>,
      << "/", "p", "/", "n", "o", "p", "e" >> }

ConcActions == { "add", "remove", "setActive" }

FreeIds == (1..MaxInflight) \ { r.id : r \in inflight }

\* A request arrives with the right token and a path (lines 365-373): it
\* is resolved, and fs.stat is called.
ConcReceive ==
    /\ FreeIds # {}
    /\ \E action \in ConcActions, path \in ConcPaths :
          /\ requireToken(ConfigToken) /\ path # << >>
          /\ inflight' = inflight \cup
                { [id |-> CHOOSE i \in FreeIds : \A j \in FreeIds : i <= j,
                   action |-> action, resolved |-> normalizePath(path),
                   stage |-> "stat", snapshot |-> DefaultConfig] }
    /\ UNCHANGED << config, persisted, resp, authP, authR, authDone, authV, scan, ui >>

\* What the request does to the config object once stat has answered
\* (lines 374-401): the new object, and whether the request goes on to
\* write it.
ConcMutation(cfg, r) ==
    LET stats == FsStat(r.resolved)
        Refused == [config |-> cfg, saved |-> FALSE]
    IN  IF ~stats.ok \/ ~stats.isDir THEN Refused
        ELSE IF r.action = "add"
             THEN [config |-> AddRoot(cfg, r.resolved), saved |-> TRUE]
        ELSE IF r.action = "remove"
             THEN [config |-> RemoveRoot(cfg, r.resolved), saved |-> TRUE]
        ELSE IF r.action = "setActive" /\ Includes(cfg.allowedPaths, r.resolved)
             THEN [config |-> SetActiveRoot(cfg, r.resolved), saved |-> TRUE]
        ELSE Refused

\* stat has answered a request: it is refused and answered, or it changes
\* the config object and starts the write of its text (lines 374-403).
ConcStatDone ==
    \E r \in inflight :
        /\ r.stage = "stat"
        /\ LET out == ConcMutation(config, r) IN
           /\ config' = out.config
           /\ inflight' = IF out.saved
                          THEN (inflight \ { r }) \cup
                               { [r EXCEPT !.stage = "write", !.snapshot = out.config] }
                          ELSE inflight \ { r }
        /\ UNCHANGED << persisted, resp, authP, authR, authDone, authV, scan, ui >>

\* The write of a request has finished (line 403): the file holds its
\* text, and the request is answered (lines 405-408).
ConcWriteDone ==
    \E r \in inflight :
        /\ r.stage = "write"
        /\ persisted' = r.snapshot
        /\ inflight' = inflight \ { r }
        /\ UNCHANGED << config, resp, authP, authR, authDone, authV, scan, ui >>

ConcInit == ServerIdle /\ AuthIdle /\ ScanIdle /\ ConcIdle /\ UiIdle

ConcNext == ConcReceive \/ ConcStatDone \/ ConcWriteDone

SpecConc == ConcInit /\ [][ConcNext]_vars

----------------------------------------------------------------------------
(* SpecUi: the page of the Bridge UI (the script served from public/)      *)
(* against the server, with another client that holds the token           *)
(*                                                                         *)
(* ui.pc is where the page is: "closed", "boot" (init awaits /bootstrap),  *)
(* "idle", "update" (updatePath awaits its answer), "scan" (scanProject    *)
(* awaits its answer).  resp is the answer the page is waiting for.        *)

\* The x-bridge-token header of the requests of the page: fetchJson is
\* given no such header (script lines 63-69 and 84).
UiToken == << >>

\* What the user types into pathInput.
UiInputs ==
    { << " " >>, << "/", "p" >>, << "/", "p", " ", "/" >>,
      << "/", "p", "/", "n", "o", "p", "e" >> }

\* The paths of the requests of the other client.
ApiPaths == { << "/", "p" >>, << "/", "p", " ", "/" >> }

UiPage(pc, cfg, tree, alert, req) ==
    [pc |-> pc, config |-> cfg, tree |-> tree, alert |-> alert, req |-> req]

NoUiReq == [action |-> "none", path |-> << >>, from |-> "none"]

\* GET /bootstrap from the page itself (index.js lines 211-231).
BootstrapHandler(cfg) ==
    Response("bootstrap", [token |-> UiToken], cfg, 200, "OK", << >>,
             [token |-> ConfigToken, config |-> cfg])

\* scanProject (script lines 77-89) up to its await: the page and the
\* answer it waits for.
UiScanProject(page, cfg) ==
    IF page.config.activeProjectRoot = << >>
    THEN [ui |-> [page EXCEPT !.pc = "idle", !.tree = "hint", !.req = NoUiReq],
          resp |-> NoResp]
    ELSE [ui |-> [page EXCEPT !.pc = "scan", !.tree = "scanning", !.req = NoUiReq],
          resp |-> ScanHandler(cfg, UiToken,
                               [path |-> page.config.activeProjectRoot,
                                maxDepth |-> << >>, maxEntries |-> << >>])]

\* The page is opened: init (script lines 117-128) asks for /bootstrap.
UiOpen ==
    /\ ui = NoUi
    /\ ui' = UiPage("boot", DefaultConfig, "none", FALSE, NoUiReq)
    /\ resp' = BootstrapHandler(config)
    /\ UNCHANGED << config, persisted, authP, authR, authDone, authV, scan, inflight >>

\* loadBootstrap keeps data.config (script lines 27-32), and init calls
\* scanProject.
UiBootReply ==
    /\ ui # NoUi /\ ui.pc = "boot"
    /\ LET out == UiScanProject([ui EXCEPT !.config = resp.body.config], config)
       IN  ui' = out.ui /\ resp' = out.resp
    /\ UNCHANGED << config, persisted, authP, authR, authDone, authV, scan, inflight >>

\* updatePath (script lines 62-69) up to its await.
UiUpdatePath(action, value, from) ==
    LET out == AllowedPathsHandler(config, persisted, UiToken,
                                   [action |-> action, path |-> value])
    IN  /\ config' = out.config
        /\ persisted' = out.persisted
        /\ resp' = out.resp
        /\ ui' = [ui EXCEPT !.pc = "update", !.alert = FALSE,
                            !.req = [action |-> action, path |-> value, from |-> from]]
        /\ UNCHANGED << authP, authR, authDone, authV, scan, inflight >>

\* The click on addPath (script lines 104-108).
UiAddPath ==
    /\ ui # NoUi /\ ui.pc = "idle"
    /\ \E input \in UiInputs :
          /\ Trim(input) # << >>
          /\ UiUpdatePath("add", Trim(input), "addPath")

\* The clicks on the buttons of a listed path (script lines 56-57).
UiSetActive ==
    /\ ui # NoUi /\ ui.pc = "idle"
    /\ \E i \in 1..Len(ui.config.allowedPaths) :
          UiUpdatePath("setActive", ui.config.allowedPaths[i], "list")

UiRemove ==
    /\ ui # NoUi /\ ui.pc = "idle"
    /\ \E i \in 1..Len(ui.config.allowedPaths) :
          UiUpdatePath("remove", ui.config.allowedPaths[i], "list")

\* The answer to updatePath: fetchJson throws unless it is a 2xx (script
\* lines 18-25), which the click on addPath reports (lines 110-112);
\* otherwise the page takes the new lists and calls scanProject (71-74).
UiUpdateReply ==
    /\ ui # NoUi /\ ui.pc = "update"
    /\ IF resp.code # "OK"
       THEN /\ ui' = [ui EXCEPT !.pc = "idle", !.alert = (ui.req.from = "addPath"),
                                !.req = NoUiReq]
            /\ resp' = NoResp
       ELSE LET out == UiScanProject([ui EXCEPT !.config = resp.body], config)
            IN  ui' = out.ui /\ resp' = out.resp
    /\ UNCHANGED << config, persisted, authP, authR, authDone, authV, scan, inflight >>

\* The click on scanProject, or the timer (script lines 91-96, 115).
UiScan ==
    /\ ui # NoUi /\ ui.pc = "idle"
    /\ LET out == UiScanProject(ui, config) IN ui' = out.ui /\ resp' = out.resp
    /\ UNCHANGED << config, persisted, authP, authR, authDone, authV, scan, inflight >>

\* The answer to scanProject (script lines 84-88).
UiScanReply ==
    /\ ui # NoUi /\ ui.pc = "scan"
    /\ ui' = [ui EXCEPT !.pc = "idle",
                        !.tree = IF resp.code = "OK" THEN "tree" ELSE "failed"]
    /\ resp' = NoResp
    /\ UNCHANGED << config, persisted, authP, authR, authDone, authV, scan, inflight >>

\* The page is closed.
UiClose ==
    /\ ui # NoUi /\ ui.pc = "idle"
    /\ ui' = NoUi
    /\ UNCHANGED << config, persisted, resp, authP, authR, authDone, authV, scan, inflight >>

\* A client that holds the token changes the allowed paths.
ApiMutation ==
    /\ \E action \in ConcActions, path \in ApiPaths :
          LET out == AllowedPathsHandler(config, persisted, ConfigToken,
                                         [action |-> action, path |-> path])
          IN  /\ config' = out.config
              /\ persisted' = out.persisted
    /\ UNCHANGED << resp, authP, authR, authDone, authV, scan, inflight, ui >>

UiInit == ServerIdle /\ AuthIdle /\ ScanIdle /\ ConcIdle /\ UiIdle

UiNext ==
    \/ UiOpen
    \/ UiBootReply
    \/ UiAddPath
    \/ UiSetActive
    \/ UiRemove
    \/ UiUpdateReply
    \/ UiScan
    \/ UiScanReply
    \/ UiClose
    \/ ApiMutation

SpecUi == UiInit /\ [][UiNext]_vars

----------------------------------------------------------------------------
(* Notions the claims are stated in                                        *)

\* The names a canonical absolute path is made of, from the root down.
PathNames(p) == LET NonEmpty(x) == x # << >> IN SelectSeq(Split(p, "/"), NonEmpty)

\* p is root or lies below it in the directory hierarchy.
OnOrBelow(p, root) ==
    LET ps == PathNames(p)
        rs == PathNames(root)
    IN  Len(rs) <= Len(ps) /\ SubSeq(ps, 1, Len(rs)) = rs

\* p is on or below some member of the list of authorized roots.
Contained(p, roots) == \E i \in 1..Len(roots) : OnOrBelow(p, roots[i])

\* A request that passed the token check.
Answered(route) == resp # NoResp /\ resp.route = route /\ resp.code # "UNAUTHORIZED"

\* The path a scan or read request is about, canonical.
RequestedPath ==
    normalizePath(IF resp.route = "scan" /\ resp.req.path = << >>
                  THEN resp.cfg.activeProjectRoot ELSE resp.req.path)

PathGiven ==
    resp.req.path # << >> \/ (resp.route = "scan" /\ resp.cfg.activeProjectRoot # << >>)

CallsOf(op) == { i \in 1..Len(resp.calls) : resp.calls[i].op = op }

----------------------------------------------------------------------------
(* C1 - every path a scan or read request touches on disk is on or below   *)
(* an authorized root, and a request for a path that is not is answered    *)
(* ACCESS_DENIED without any file-system call.  The code touches "/p ",    *)
(* a sibling of the authorized /p: C1_Containment is violated.             *)
C1_Containment ==
    (Answered("scan") \/ Answered("read")) /\ PathGiven =>
        /\ \A i \in 1..Len(resp.calls) :
              Contained(resp.calls[i].path, resp.cfg.allowedPaths)
        /\ ~Contained(RequestedPath, resp.cfg.allowedPaths) =>
              resp.code = "ACCESS_DENIED" /\ resp.calls = << >>

----------------------------------------------------------------------------
(* C2 - isWithinAllowed(P, R) is true exactly when the canonical form of P *)
(* is a root of R or a descendant of one (a descendant whose first name    *)
(* begins with two dots included), and false for the empty R.  The code    *)
(* refuses /p/..c under the root /p: C2_ExactContainment is violated.      *)
C2_ExactContainment ==
    authDone => (authV <=> Contained(normalizePath(authP), authR))

----------------------------------------------------------------------------
(* C3 - for a root r of R and a suffix with ".." segments, the verdict on  *)
(* r + suffix is false unless the resolved path is on or below a root of   *)
(* R, and it is the verdict on the resolved path.  The code trims the      *)
(* stored root "/p " to /p and lets "/p /../p/f" through:                  *)
(* C3_TraversalProof is violated.                                          *)
C3_TraversalProof ==
    authDone /\ (\E i \in 1..Len(authR), suffix \in TraversalSuffixes :
                    authP = authR[i] \o suffix) =>
        /\ authV => Contained(normalizePath(authP), authR)
        /\ authV = isWithinAllowed(normalizePath(authP), authR)

----------------------------------------------------------------------------
(* C4 - a read of an authorized path whose file name's final dotted        *)
(* suffix, lower-cased, is a forbidden extension is answered ACCESS_DENIED *)
(* with no content, and a name without a dot is not refused as a forbidden *)
(* type.  The code reads /p/.env: C4_ForbiddenSuffix is violated.          *)
FileNameOf(p) == LET names == PathNames(p) IN
                 IF names = << >> THEN << >> ELSE names[Len(names)]

FinalDottedSuffix(name) ==
    IF LastDot(name) = 0 THEN << >> ELSE SubSeq(name, LastDot(name), Len(name))

C4_ForbiddenSuffix ==
    Answered("read") /\ resp.req.path # << >>
        /\ isWithinAllowed(RequestedPath, resp.cfg.allowedPaths) =>
        LET suffix == ToLowerCase(FinalDottedSuffix(FileNameOf(RequestedPath))) IN
        /\ suffix \in ForbiddenExtensions =>
              resp.code = "ACCESS_DENIED" /\ resp.calls = << >>
        /\ suffix = << >> => resp.body # ErrorBody("Forbidden file type")

----------------------------------------------------------------------------
(* C5 - a scan, read, config or environment request whose token is absent, *)
(* empty or not the configured one is answered UNAUTHORIZED, makes no      *)
(* file-system call (and runs no command), and leaves the configuration in *)
(* memory and on disk as it was.                                           *)
C5_TokenGate ==
    [][ resp' # NoResp /\ resp # resp' /\ resp'.req.token # ConfigToken =>
            /\ resp'.code = "UNAUTHORIZED"
            /\ resp'.calls = << >>
            /\ config' = config
            /\ persisted' = persisted ]_vars

\* A mutation request with a wrong token has been refused, with roots set.
C5_Witness ==
    /\ resp # NoResp /\ resp.route = "allowed-paths"
    /\ resp.req.token = << "b", "a", "d" >> /\ resp.req.action = "remove"
    /\ resp.req.path = P_p
    /\ resp.code = "UNAUTHORIZED"
    /\ config.allowedPaths = << P_p >>

----------------------------------------------------------------------------
(* C7 - the limits a scan request hands to the scanner are positive        *)
(* integers, maxDepth <= 8 and maxEntries <= 1500, whatever the request    *)
(* carries.  The code hands on 0, -1 and NaN: C7_LimitsClamped is violated.*)
PositiveUpTo(n, ceiling) == ~n.nan /\ n.v >= 1 /\ n.v <= ceiling

C7_LimitsClamped ==
    Answered("scan") /\ resp.code = "OK" =>
        /\ PositiveUpTo(resp.body.limits.maxDepth, MaxDepthCeiling)
        /\ PositiveUpTo(resp.body.limits.maxEntries, MaxEntriesCeiling)

----------------------------------------------------------------------------
(* C9 - in a read the size check comes before the content is read: a file  *)
(* whose stat size exceeds maxFileSize is answered FILE_TOO_LARGE and      *)
(* readFile is not called, and every readFile comes after a stat of the    *)
(* same path whose size was at most maxFileSize.                           *)
C9_SizeBeforeRead ==
    Answered("read") =>
        /\ resp.code = "FILE_TOO_LARGE" => CallsOf("readFile") = {}
        /\ CallsOf("stat") # {} /\ FsStat(RequestedPath).size > ConfigMaxFileSize =>
              resp.code = "FILE_TOO_LARGE"
        /\ \A i \in CallsOf("readFile") :
              \E j \in CallsOf("stat") :
                 /\ j < i
                 /\ resp.calls[j].path = resp.calls[i].path
                 /\ FsStat(resp.calls[j].path).size <= ConfigMaxFileSize

\* The read of a file above the limit has been refused.
C9_Witness ==
    /\ Answered("read") /\ resp.code = "FILE_TOO_LARGE"
    /\ resp.body.size = 2000000
    /\ resp.calls = << FsCall("existsSync", RequestedPath), FsCall("stat", RequestedPath) >>

----------------------------------------------------------------------------
(* C10 - with maxLines > 0, a file of more than maxLines segments is       *)
(* returned as its first maxLines segments and one marker segment, with    *)
(* truncated = true and the line count of what is returned; a file of      *)
(* maxLines segments or fewer is returned as it is, truncated = false.     *)
(* The code reports truncated = false for a cut file whose segment after   *)
(* the cut is the marker text: C10_Truncation is violated.                 *)
EffectiveMaxLines ==
    IF resp.req.maxLines.given THEN resp.req.maxLines.v ELSE ConfigMaxReadLines

C10_Truncation ==
    Answered("read") /\ resp.code = "OK" /\ EffectiveMaxLines > 0 =>
        LET original == FsReadFile(RequestedPath).content
            segments == Split(original, "\n")
            returned == Split(resp.body.content, "\n")
        IN  /\ resp.body.lines = Len(returned)
            /\ Len(segments) > EffectiveMaxLines =>
                  /\ returned = Append(SubSeq(segments, 1, EffectiveMaxLines),
                                       << ReadMarker >>)
                  /\ resp.body.truncated = TRUE
            /\ Len(segments) <= EffectiveMaxLines =>
                  /\ resp.body.content = original
                  /\ resp.body.truncated = FALSE

----------------------------------------------------------------------------
(* Notions the scan claims are stated in                                   *)

IsMarkerLine(line) == line = << ScanMarker >>
IsEntryLine(line) == ~IsMarkerLine(line)

EntryLines(lines) == SelectSeq(lines, IsEntryLine)
MarkerLines(lines) == SelectSeq(lines, IsMarkerLine)

\* The depth of an entry line: the indents before its icon.
LineDepth(line) ==
    (CHOOSE i \in 1..Len(line) : line[i] \in { DirIcon, FileIcon }) - 1

\* n is within a limit: n is at most the limit (at most 0 for a negative
\* limit); no number but 0 is within a limit that is not a number.
WithinLimit(n, limit) ==
    n = 0 \/ (~limit.nan /\ n <= limit.v)

----------------------------------------------------------------------------
(* C6 - a scan emits at most maxEntries entry lines and at most one        *)
(* truncation marker, and no entry deeper than maxDepth (the entries of    *)
(* rootDir being at depth 0).  A request with maxEntries=abc or            *)
(* maxDepth=abc starts the scan with NaN, and it lists everything:         *)
(* C6_ScanBounded is violated.                                             *)
C6_ScanBounded ==
    /\ WithinLimit(Len(EntryLines(scan.lines)), scan.opts.maxEntries)
    /\ Len(MarkerLines(scan.lines)) <= 1
    /\ \A i \in 1..Len(scan.lines) :
          IsEntryLine(scan.lines[i]) =>
              WithinLimit(LineDepth(scan.lines[i]), scan.opts.maxDepth)

----------------------------------------------------------------------------
(* C8 - the output of a scan is the pre-order depth-first listing of the   *)
(* tree: the entries of a directory in dictionary order of their names     *)
(* (the collation order of the characters, capitals with their small       *)
(* letters), the listed descendants of a directory right after its line    *)
(* and before its next sibling; cut after maxEntries entries.              *)

\* a comes before b: a is a proper prefix of b, or at the first place they
\* differ a has the character that collates first.
NameBefore(a, b) ==
    \E k \in 1..(Len(a) + 1) :
        /\ k <= Len(b)
        /\ \A i \in 1..(k - 1) : CharRank(a[i]) = CharRank(b[i])
        /\ (k = Len(a) + 1 \/ CharRank(a[k]) < CharRank(b[k]))

\* The names of a set in that order.
InDictionaryOrder(names) ==
    [i \in 1..Cardinality(names) |->
        CHOOSE x \in names : Cardinality({ y \in names : NameBefore(y, x) }) = i - 1]

SetOf(seq) == { seq[i] : i \in 1..Len(seq) }

RECURSIVE TreeListing(_, _, _)
RECURSIVE EntriesListing(_, _, _, _)

\* The listing of dir, whose entries are at `depth`: nothing beyond
\* maxDepth or for a directory that cannot be listed.
TreeListing(dir, depth, opts) ==
    IF JsGt(Num(depth), opts.maxDepth) \/ ~FsReaddir(dir).ok THEN << >>
    ELSE EntriesListing(dir, InDictionaryOrder(SetOf(FsReaddir(dir).names)), depth, opts)

\* The listing of the given entries of dir, in turn: an entry is skipped
\* when its name is ignored or its stat fails; a directory's line is
\* followed by the listing of the directory.
EntriesListing(dir, names, depth, opts) ==
    IF names = << >> THEN << >>
    ELSE LET name  == Head(names)
             child == PathJoin(dir, name)
             stat  == FsStat(child)
             here  == IF name \in opts.ignoredDirs \/ ~stat.ok THEN << >>
                      ELSE << EntryLine([i \in 1..depth |-> Indent], stat.isDir, name) >>
                           \o (IF stat.isDir THEN TreeListing(child, depth + 1, opts)
                               ELSE << >>)
         IN  here \o EntriesListing(dir, Tail(names), depth, opts)

\* The first entries of a listing a limit lets through.
CutAt(listing, limit) ==
    IF limit.nan THEN listing
    ELSE IF limit.v <= 0 THEN << >>
    ELSE IF limit.v >= Len(listing) THEN listing
    ELSE SubSeq(listing, 1, limit.v)

C8_PreOrderListing ==
    scan.done =>
        EntryLines(scan.lines) =
            CutAt(TreeListing(scan.rootDir, 0, scan.opts), scan.opts.maxEntries)

\* The scan of /p under the default limits is done: it has listed
\* directories, files three levels down, and through the link of /p/src.
C8_Witness ==
    /\ scan.done /\ scan.rootDir = P_p
    /\ scan.opts.maxDepth = Num(ConfigMaxDepth)
    /\ scan.opts.maxEntries = Num(ConfigMaxEntries)
    /\ \E i \in 1..Len(scan.lines) :
          /\ i + 2 <= Len(scan.lines)
          /\ scan.lines[i] = << DirIcon, "s", "r", "c" >>
          /\ scan.lines[i + 1] = << Indent, DirIcon, "a" >>
          /\ scan.lines[i + 2] = << Indent, Indent, FileIcon, "z" >>
    /\ Len(scan.lines) > 20

----------------------------------------------------------------------------
(* Notions the claims on the allowed paths are stated in                   *)

\* An answer to a mutation request that had the right token.
Mutation(action) == Answered("allowed-paths") /\ resp.req.action = action

\* The canonical path of the mutation request being answered.
MutationPath == normalizePath(resp.req.path)

\* x is one of the paths of a list.
MemberOf(x, list) == \E i \in 1..Len(list) : list[i] = x

\* The paths of a list but x, in the order of the list.
Others(list, x) == LET IsOther(y) == y # x IN SelectSeq(list, IsOther)

----------------------------------------------------------------------------
(* C11 - whatever the add, remove and setActive requests and however they  *)
(* interleave, activeProjectRoot is empty or one of allowedPaths; it is    *)
(* empty whenever allowedPaths is.                                         *)
C11_ActiveIsMember ==
    /\ config.activeProjectRoot = << >>
          \/ MemberOf(config.activeProjectRoot, config.allowedPaths)
    /\ config.allowedPaths = << >> => config.activeProjectRoot = << >>

\* The active root has been removed while another request was in flight:
\* the other root is the active one, and the file still has both.
C11_Witness ==
    /\ config = [allowedPaths |-> << P_psp >>, activeProjectRoot |-> P_psp]
    /\ persisted = [allowedPaths |-> << P_p, P_psp >>, activeProjectRoot |-> P_p]
    /\ \E r \in inflight : r.stage = "write" /\ r.action = "remove" /\ r.resolved = P_p
    /\ \E r \in inflight : r.stage = "stat"

----------------------------------------------------------------------------
(* C12 - a remove of the active root makes the first of the paths left the *)
(* active root, or none if no path is left; a remove of another path       *)
(* leaves the active root as it was; the paths left keep their order.      *)
C12_RemoveRoot ==
    Mutation("remove") /\ resp.code = "OK" =>
        LET left == Others(resp.cfg.allowedPaths, MutationPath) IN
        /\ config.allowedPaths = left
        /\ resp.cfg.activeProjectRoot = MutationPath =>
              config.activeProjectRoot = (IF left = << >> THEN << >> ELSE left[1])
        /\ resp.cfg.activeProjectRoot # MutationPath =>
              config.activeProjectRoot = resp.cfg.activeProjectRoot

\* The active root, first of three, has been removed: the second is active.
C12_Witness ==
    /\ Mutation("remove") /\ resp.code = "OK"
    /\ Len(resp.cfg.allowedPaths) = 3
    /\ resp.cfg.activeProjectRoot = MutationPath
    /\ resp.cfg.allowedPaths[1] = MutationPath
    /\ config.activeProjectRoot = resp.cfg.allowedPaths[2]
    /\ config.allowedPaths = << resp.cfg.allowedPaths[2], resp.cfg.allowedPaths[3] >>

----------------------------------------------------------------------------
(* C13 - a setActive of a path that is not one of allowedPaths, whether or *)
(* not the path exists or is a directory, is answered INVALID_REQUEST and  *)
(* changes nothing in memory or on disk.  The code answers NOT_FOUND for a *)
(* path that does not exist and NOT_DIRECTORY for a file: C13_SetActive is *)
(* violated.                                                               *)
C13_SetActive ==
    [][ /\ resp = NoResp /\ resp' # NoResp
        /\ resp'.route = "allowed-paths" /\ resp'.code # "UNAUTHORIZED"
        /\ resp'.req.action = "setActive"
        /\ ~MemberOf(normalizePath(resp'.req.path), config.allowedPaths)
        => /\ resp'.code = "INVALID_REQUEST"
           /\ config' = config
           /\ persisted' = persisted ]_vars

----------------------------------------------------------------------------
(* C14 - an add of a path that does not exist is answered NOT_FOUND, of a  *)
(* path that is not a directory NOT_DIRECTORY, and neither changes the     *)
(* configuration; any other add puts the canonical path at the end of      *)
(* allowedPaths unless it is there already (the paths before keep their    *)
(* places), and makes it the active root exactly when there was none.      *)
C14_AddRoot ==
    Mutation("add") /\ resp.req.path # << >> =>
        LET stats == FsStat(MutationPath) IN
        /\ ~stats.ok => resp.code = "NOT_FOUND" /\ config = resp.cfg
        /\ stats.ok /\ ~stats.isDir => resp.code = "NOT_DIRECTORY" /\ config = resp.cfg
        /\ stats.ok /\ stats.isDir =>
              /\ resp.code = "OK"
              /\ config.allowedPaths =
                    (IF MemberOf(MutationPath, resp.cfg.allowedPaths)
                     THEN resp.cfg.allowedPaths
                     ELSE resp.cfg.allowedPaths \o << MutationPath >>)
              /\ \A i, j \in 1..Len(config.allowedPaths) :
                    config.allowedPaths[i] = config.allowedPaths[j] => i = j
              /\ config.activeProjectRoot =
                    (IF resp.cfg.activeProjectRoot = << >> THEN MutationPath
                     ELSE resp.cfg.activeProjectRoot)

\* A path that was there has been added again, with another root active:
\* nothing has changed.
C14_Witness ==
    /\ Mutation("add") /\ resp.code = "OK"
    /\ Len(resp.cfg.allowedPaths) = 2
    /\ resp.cfg.allowedPaths[2] = MutationPath
    /\ resp.cfg.activeProjectRoot = resp.cfg.allowedPaths[1]
    /\ config = resp.cfg

----------------------------------------------------------------------------
(* C15 - normalizePath is idempotent: for every path P given to            *)
(* isWithinAllowed, which normalizes it, normalizing the result again      *)
(* gives the same path.  path.resolve drops the "/" that ends "/p /", and  *)
(* the second trim then drops the space that now ends the string:          *)
(* C15_Idempotent is violated.                                             *)
C15_Idempotent ==
    authDone => normalizePath(normalizePath(authP)) = normalizePath(authP)

----------------------------------------------------------------------------
(* C16 - a scan enumerates only rootDir and directories that lie below it  *)
(* in the directory hierarchy, never a directory located elsewhere that a  *)
(* link inside rootDir points to.  fs.stat follows links, so walk takes    *)
(* the link /p/lnk for a directory and lists /q through it:                *)
(* C16_StaysInside is violated.                                            *)

\* The directory at node n and everything below it, links not followed.
RECURSIVE TrueTree(_)
TrueTree(n) ==
    { n } \cup
    UNION { TrueTree(FsNodes[n].entries[i].to) :
              i \in { j \in 1..Len(FsNodes[n].entries) :
                        /\ ~FsNodes[n].entries[j].link
                        /\ FsNodes[n].entries[j].to # NoNode } }

C16_StaysInside ==
    \A i \in 1..Len(scan.calls) :
        scan.calls[i].op = "readdir" /\ FsLookup(scan.calls[i].path) # NoNode =>
            FsLookup(scan.calls[i].path) \in TrueTree(FsLookup(scan.rootDir))

----------------------------------------------------------------------------
(* C17 - a scan, read or mutation request whose path is empty once its     *)
(* white space is trimmed is answered with an error, makes no file-system  *)
(* call and changes nothing in memory or on disk.  (The path of a scan     *)
(* request that carries none is activeProjectRoot.)  The code resolves ' ' *)
(* to the working directory and adds it: C17_BlankPath is violated.        *)
C17_BlankPath ==
    [][ /\ resp = NoResp /\ resp' # NoResp
        /\ resp'.route \in { "scan", "read", "allowed-paths" }
        /\ resp'.code # "UNAUTHORIZED"
        /\ Trim(IF resp'.route = "scan" /\ resp'.req.path = << >>
                THEN config.activeProjectRoot ELSE resp'.req.path) = << >>
        => /\ resp'.code # "OK"
           /\ resp'.calls = << >>
           /\ config' = config
           /\ persisted' = persisted ]_vars

----------------------------------------------------------------------------
(* C18 - the allowed paths can be managed from the page: the server        *)
(* accepts the add of an existing directory that the page sends, and       *)
(* answers the scan of an allowed active root that the page sends with a   *)
(* tree.  The page sends no token and both are answered UNAUTHORIZED:      *)
(* C18_UiManages is violated.                                              *)
C18_UiManages ==
    ui # NoUi =>
        /\ ui.pc = "update" /\ ui.req.action = "add"
              /\ FsStat(normalizePath(ui.req.path)).isDir
              => resp.code = "OK"
        /\ ui.pc = "scan"
              /\ MemberOf(ui.config.activeProjectRoot, resp.cfg.allowedPaths)
              /\ FsStat(ui.config.activeProjectRoot).isDir
              => resp.code = "OK"

----------------------------------------------------------------------------
(* C19 - whatever the interleaving of add, remove and setActive requests,  *)
(* once all of them have been answered the configuration on disk equals    *)
(* the one in memory.  Two writes may finish in the other order than they  *)
(* were started, and the file keeps the earlier text: C19_PersistedMatches *)
(* is violated.                                                            *)
C19_PersistedMatches ==
    inflight = {} => persisted = config

----------------------------------------------------------------------------
(* C20 - every scan ends and returns its lines, whatever the links of the  *)
(* directory structure (cycles included) and whatever maxDepth and         *)
(* maxEntries the request has handed on.                                   *)
C20_ScanTerminates == <>scan.done

\* A scan without a limit that is a number has ended, having gone round
\* the cycle /p/src/up -> /p as far as the kernel resolves it.
C20_Witness ==
    /\ scan.done /\ scan.rootDir = P_src
    /\ scan.opts.maxDepth.nan /\ scan.opts.maxEntries.nan
    /\ \E i \in 1..Len(scan.calls) :
          /\ scan.calls[i].op = "stat"
          /\ ~FsStat(scan.calls[i].path).ok
          /\ Len(SelectSeq(Split(scan.calls[i].path, "/"),
                           LAMBDA name : name = << "u", "p" >>)) > 1

====
